---- MODULE Spec2Model ----
(***************************************************************************)
(* Model of the two Angular fragments of the repository:                   *)
(*   - MyComponent (src/unnamed/part_000): a form with one text control    *)
(*     "name" and a list of selected files, posted as multipart FormData;  *)
(*   - ConfigService (src/awjdna.ts): loadConfig() returning the           *)
(*     Observable of HttpClient.get('/api/config').                        *)
(* HttpClient observables are cold: a request goes on the wire when the    *)
(* observable is subscribed, once per subscription; unsubscribing a        *)
(* pending request aborts it.  The outcome of a request reaches the        *)
(* subscriber's callbacks in the same event-loop task in which the         *)
(* transport answers, so "transport answers" and "callback runs" are one   *)
(* step of the model.                                                      *)
(***************************************************************************)
EXTENDS Integers, Sequences, FiniteSets, TLC

\* ---- bounds of the model ------------------------------------------------
MaxSubmits == 2     \* onSubmit() invocations explored
MaxLoads   == 2     \* loadConfig() invocations explored
MaxSubs    == 2     \* subscriptions to loadConfig() handles explored

\* ---- input domains ------------------------------------------------------
NameValues == {"", "Alice"}
aTxt == [name |-> "a.txt", content |-> "A"]
bPng == [name |-> "b.png", content |-> "B"]
Files == {aTxt, bPng}
\* The FileList of a file input: any of the files, each at most once, in any order.
FileLists ==
    { fl \in UNION { [1..n -> Files] : n \in 0..Cardinality(Files) } :
        \A i, j \in 1..Len(fl) : fl[i] = fl[j] => i = j }

PostResponses == {"res"}
ConfigResponses == {"cfgA", "cfgB"}
Failure == "HttpErrorResponse"
NoFilename == "<none>"
NoBody == "<none>"

VARIABLES
    name,           \* myForm.get('name').value
    selectedFiles,  \* MyComponent.selectedFiles
    posts,          \* POST requests put on the wire by onSubmit, with their status
    console,        \* the observation sink: console.log / console.error calls
    unhandled,      \* errors that escaped to the host (no error callback ran)
    submitCalls,    \* number of onSubmit() invocations
    loadCalls,      \* number of loadConfig() invocations (= handles returned)
    gets,           \* GET requests put on the wire, with the transport's outcome
    subs            \* subscriptions to loadConfig() handles, with what they observed

formVars == <<name, selectedFiles, posts, console, unhandled, submitCalls>>
configVars == <<loadCalls, gets, subs>>
vars == <<name, selectedFiles, posts, console, unhandled, submitCalls,
          loadCalls, gets, subs>>

\* ---- MyComponent ----------------------------------------------------------

\* Array.from(event.target.files): a fresh array with the list's items in order.
ArrayFrom(fileList) == [i \in 1..Len(fileList) |-> fileList[i]]

\* Variant: the name part is appended only when the value is truthy.
AppendNameIfTruthy(formData, value) ==
    IF value = "" THEN formData
    ELSE Append(formData, [key |-> "name", value |-> value, filename |-> NoFilename])

\* formData.append('name', value): one string part, no filename.
AppendName(formData, value) ==
    Append(formData, [key |-> "name", value |-> value, filename |-> NoFilename])

\* formData.append('source_files', file, file.name): one file part, carrying
\* the file's content and the given filename.
AppendFile(formData, file) ==
    Append(formData, [key |-> "source_files", value |-> file.content,
                      filename |-> file.name])

\* Variant: the files are appended last to first.
RECURSIVE ForEachFileReversed(_, _, _)
ForEachFileReversed(formData, files, i) ==
    IF i > Len(files) THEN formData
    ELSE AppendFile(ForEachFileReversed(formData, files, i + 1), files[i])

\* this.selectedFiles.forEach((file, index) => formData.append(...)), from index i on.
RECURSIVE ForEachFile(_, _, _)
ForEachFile(formData, files, i) ==
    IF i > Len(files) THEN formData
    ELSE ForEachFile(AppendFile(formData, files[i]), files, i + 1)

\* The FormData onSubmit builds from the form value and the selection.
BuildFormData(nameValue, files) ==
    ForEachFile(AppendName(<<>>, nameValue), files, 1)

\* this.http.post('/your-api-endpoint', formData), subscribed: the request on the wire.
PostRequest(formData) ==
    [method |-> "POST", url |-> "/your-api-endpoint", body |-> formData,
     status |-> "pending"]

\* State after construction: name: [''], selectedFiles = [], nothing sent.
Init ==
    /\ name = ""
    /\ selectedFiles = <<>>
    /\ posts = <<>>
    /\ console = <<>>
    /\ unhandled = <<>>
    /\ submitCalls = 0
    /\ loadCalls = 0
    /\ gets = <<>>
    /\ subs = <<>>

\* User input into the 'name' control of myForm.
SetName(v) ==
    /\ v # name
    /\ name' = v
    /\ UNCHANGED <<selectedFiles, posts, console, unhandled, submitCalls>>
    /\ UNCHANGED configVars

\* Variant: the new files are pushed onto the array the component already holds,
\* and requests not yet answered serialise that same array.
OnFilesSelectedShared(fileList) ==
    /\ selectedFiles' = ArrayFrom(fileList)
    /\ posts' = [i \in 1..Len(posts) |->
                   IF posts[i].status = "pending"
                   THEN [posts[i] EXCEPT !.body =
                            BuildFormData(posts[i].body[1].value, ArrayFrom(fileList))]
                   ELSE posts[i]]
    /\ UNCHANGED <<name, console, unhandled, submitCalls>>
    /\ UNCHANGED configVars

\* Variant: the new files are appended to the current selection.
OnFilesSelectedAppending(fileList) ==
    /\ Len(selectedFiles) + Len(fileList) <= 2 * Cardinality(Files)
    /\ selectedFiles' = selectedFiles \o ArrayFrom(fileList)
    /\ UNCHANGED <<name, posts, console, unhandled, submitCalls>>
    /\ UNCHANGED configVars

\* this.selectedFiles = Array.from(event.target.files)
OnFilesSelected(fileList) ==
    /\ selectedFiles' = ArrayFrom(fileList)
    /\ UNCHANGED <<name, posts, console, unhandled, submitCalls>>
    /\ UNCHANGED configVars

OnSubmit ==
    /\ submitCalls < MaxSubmits
    /\ submitCalls' = submitCalls + 1
    /\ posts' = Append(posts, PostRequest(BuildFormData(name, selectedFiles)))
    /\ UNCHANGED <<name, selectedFiles, console, unhandled>>
    /\ UNCHANGED configVars

\* Variant: the success callback also clears the selection.
PostSuccessClearing(i, res) ==
    /\ i \in 1..Len(posts)
    /\ posts[i].status = "pending"
    /\ posts' = [posts EXCEPT ![i].status = "success"]
    /\ console' = Append(console, [level |-> "log", msg |-> "Success",
                                   arg |-> res, req |-> i])
    /\ selectedFiles' = <<>>
    /\ UNCHANGED <<name, unhandled, submitCalls>>
    /\ UNCHANGED configVars

\* Variant: subscribe() is given no success callback.
PostSuccessSilent(i, res) ==
    /\ i \in 1..Len(posts)
    /\ posts[i].status = "pending"
    /\ posts' = [posts EXCEPT ![i].status = "success"]
    /\ UNCHANGED <<name, selectedFiles, console, unhandled, submitCalls>>
    /\ UNCHANGED configVars

\* The transport answers request i with res: res => console.log('Success', res)
PostSuccess(i, res) ==
    /\ i \in 1..Len(posts)
    /\ posts[i].status = "pending"
    /\ posts' = [posts EXCEPT ![i].status = "success"]
    /\ console' = Append(console, [level |-> "log", msg |-> "Success",
                                   arg |-> res, req |-> i])
    /\ UNCHANGED <<name, selectedFiles, unhandled, submitCalls>>
    /\ UNCHANGED configVars

\* Variant: the error callback sends the request again.
PostErrorRetrying(i) ==
    /\ i \in 1..Len(posts)
    /\ posts[i].status = "pending"
    /\ Len(posts) < 2 * MaxSubmits
    /\ posts' = Append([posts EXCEPT ![i].status = "error"],
                       PostRequest(posts[i].body))
    /\ console' = Append(console, [level |-> "error", msg |-> "Error",
                                   arg |-> Failure, req |-> i])
    /\ UNCHANGED <<name, selectedFiles, unhandled, submitCalls>>
    /\ UNCHANGED configVars

\* Variant: subscribe() is given no error callback; the error goes to the host.
PostErrorUnhandled(i) ==
    /\ i \in 1..Len(posts)
    /\ posts[i].status = "pending"
    /\ posts' = [posts EXCEPT ![i].status = "error"]
    /\ unhandled' = Append(unhandled, [arg |-> Failure, req |-> i])
    /\ UNCHANGED <<name, selectedFiles, console, submitCalls>>
    /\ UNCHANGED configVars

\* The transport fails request i: err => console.error('Error', err)
PostError(i) ==
    /\ i \in 1..Len(posts)
    /\ posts[i].status = "pending"
    /\ posts' = [posts EXCEPT ![i].status = "error"]
    /\ console' = Append(console, [level |-> "error", msg |-> "Error",
                                   arg |-> Failure, req |-> i])
    /\ UNCHANGED <<name, selectedFiles, unhandled, submitCalls>>
    /\ UNCHANGED configVars

\* ---- ConfigService --------------------------------------------------------

\* this.http.get('/api/config'): the request a subscription puts on the wire.
GetRequest ==
    [method |-> "GET", url |-> "/api/config", query |-> "", body |-> NoBody,
     response |-> "none"]

\* loadConfig() only builds and returns the cold Observable.
LoadConfig ==
    /\ loadCalls < MaxLoads
    /\ loadCalls' = loadCalls + 1
    /\ UNCHANGED <<gets, subs>>
    /\ UNCHANGED formVars

\* Variant: the handle shares one request among its subscribers.
SubscribeShared(h) ==
    /\ h \in 1..loadCalls
    /\ Len(subs) < MaxSubs
    /\ IF \E t \in 1..Len(subs) : subs[t].handle = h
       THEN LET t == CHOOSE t \in 1..Len(subs) : subs[t].handle = h
            IN  /\ gets' = gets
                /\ subs' = Append(subs, [subs[t] EXCEPT !.handle = h])
       ELSE /\ gets' = Append(gets, GetRequest)
            /\ subs' = Append(subs, [handle |-> h, get |-> Len(gets) + 1,
                                     state |-> "pending", delivered |-> "none"])
    /\ UNCHANGED loadCalls
    /\ UNCHANGED formVars

\* The caller subscribes to handle h: the GET is sent now.
Subscribe(h) ==
    /\ h \in 1..loadCalls
    /\ Len(subs) < MaxSubs
    /\ gets' = Append(gets, GetRequest)
    /\ subs' = Append(subs, [handle |-> h, get |-> Len(gets) + 1,
                             state |-> "pending", delivered |-> "none"])
    /\ UNCHANGED loadCalls
    /\ UNCHANGED formVars

\* The caller unsubscribes a pending subscription: the request is aborted.
Unsubscribe(s) ==
    /\ s \in 1..Len(subs)
    /\ subs[s].state = "pending"
    /\ subs' = [subs EXCEPT ![s].state = "aborted"]
    /\ gets' = [gets EXCEPT ![subs[s].get].response = "aborted"]
    /\ UNCHANGED loadCalls
    /\ UNCHANGED formVars

\* Variant: loadConfig() pipes catchError and hands out a default on failure.
GetOutcomeCaught(s, o) ==
    /\ s \in 1..Len(subs)
    /\ subs[s].state = "pending"
    /\ gets' = [gets EXCEPT ![subs[s].get].response = o]
    /\ subs' = [subs EXCEPT ![s].state = "done",
                            ![s].delivered = IF o = Failure THEN "default" ELSE o]
    /\ UNCHANGED loadCalls
    /\ UNCHANGED formVars

\* The transport answers subscription s with outcome o (a response or Failure);
\* loadConfig() pipes nothing, the subscriber observes o as it is.
GetOutcome(s, o) ==
    /\ s \in 1..Len(subs)
    /\ subs[s].state = "pending"
    /\ gets' = [gets EXCEPT ![subs[s].get].response = o]
    /\ subs' = [subs EXCEPT ![s].state = "done", ![s].delivered = o]
    /\ UNCHANGED loadCalls
    /\ UNCHANGED formVars

\* ---- specifications -------------------------------------------------------

\* The Submission Form Unit: user input, submit, and the transport's answers.
Next ==
    \/ \E v \in NameValues : SetName(v)
    \/ \E fl \in FileLists : OnFilesSelected(fl)
    \/ OnSubmit
    \/ \E i \in 1..MaxSubmits : \E res \in PostResponses : PostSuccess(i, res)
    \/ \E i \in 1..MaxSubmits : PostError(i)

Spec == Init /\ [][Next]_vars

\* The Configuration Fetch Unit and its caller.
ConfigNext ==
    \/ LoadConfig
    \/ \E h \in 1..MaxLoads : Subscribe(h)
    \/ \E s \in 1..MaxSubs : Unsubscribe(s)
    \/ \E s \in 1..MaxSubs : \E o \in ConfigResponses \cup {Failure} : GetOutcome(s, o)

ConfigSpec == Init /\ [][ConfigNext]_vars

\* The life of the requests of both units.  The payload plays no part in it, so
\* the form keeps its initial value; the transport eventually answers every POST.
LifecycleNext ==
    \/ OnSubmit
    \/ \E i \in 1..MaxSubmits : \E res \in PostResponses : PostSuccess(i, res)
    \/ \E i \in 1..MaxSubmits : PostError(i)
    \/ LoadConfig
    \/ \E h \in 1..MaxLoads : Subscribe(h)
    \/ \E s \in 1..MaxSubs : Unsubscribe(s)
    \/ \E s \in 1..MaxSubs : \E o \in ConfigResponses \cup {Failure} : GetOutcome(s, o)

TransportAnswers ==
    \A i \in 1..MaxSubmits :
        WF_vars((\E res \in PostResponses : PostSuccess(i, res)) \/ PostError(i))

LifecycleSpec == Init /\ [][LifecycleNext]_vars /\ TransportAnswers

\* ---- properties ------------------------------------------------------------

\* The request the step has just put on the wire.
NewPost == posts'[Len(posts')]

\* The notifications of level lv the sink holds for request i.
Notifications(i, lv) ==
    Cardinality({ k \in 1..Len(console) : console[k].req = i /\ console[k].level = lv })

\* The filenames of the file parts of a body, in order.
FileNamesOf(body) == [k \in 1..(Len(body) - 1) |-> body[k + 1].filename]

\* C1: the payload built by onSubmit is [name part, file_1, ..., file_N]: one
\* part with key "name" first, then one "source_files" part per selected file,
\* in selection order, each carrying that file's content and its own name as
\* filename (N = 0 included).
C1_PayloadIsNameThenFiles ==
    [][ submitCalls' # submitCalls =>
          /\ Len(posts') = Len(posts) + 1
          /\ Len(NewPost.body) = 1 + Len(selectedFiles)
          /\ NewPost.body[1] =
                [key |-> "name", value |-> name, filename |-> NoFilename]
          /\ \A k \in 1..Len(selectedFiles) :
                NewPost.body[k + 1] =
                    [key |-> "source_files", value |-> selectedFiles[k].content,
                     filename |-> selectedFiles[k].name]
          /\ Cardinality({ k \in 1..Len(NewPost.body) :
                               NewPost.body[k].key = "name" }) = 1 ]_vars

\* The scenario of the specification: files [a.txt, b.png], name "Alice".
C1_Witness ==
    \E i \in 1..Len(posts) :
        posts[i].body =
            << [key |-> "name", value |-> "Alice", filename |-> NoFilename],
               [key |-> "source_files", value |-> "A", filename |-> "a.txt"],
               [key |-> "source_files", value |-> "B", filename |-> "b.png"] >>

\* C2: onFilesSelected replaces the selection: after a call the selection is
\* exactly the list given to that call, whatever was selected before, and the
\* payload a following submit builds holds exactly those files.
C2_SelectReplaces ==
    [][ \A fl \in FileLists :
          OnFilesSelected(fl) =>
            /\ Len(selectedFiles') = Len(fl)
            /\ \A k \in 1..Len(fl) : selectedFiles'[k] = fl[k]
            /\ FileNamesOf(BuildFormData(name', selectedFiles'))
                 = [k \in 1..Len(fl) |-> fl[k].name] ]_vars

\* Two selections, each followed by a submit: the second payload holds only the
\* second selection.
C2_Witness ==
    /\ Len(posts) = 2
    /\ FileNamesOf(posts[1].body) = <<"a.txt">>
    /\ FileNamesOf(posts[2].body) = <<"b.png">>
    /\ selectedFiles = <<bPng>>

\* C3: every onSubmit sends exactly one POST to /your-api-endpoint and never
\* sends it again: the POSTs on the wire are as many as the onSubmit calls, also
\* after failures.
C3_OnePostPerSubmit ==
    /\ Len(posts) = submitCalls
    /\ \A i \in 1..Len(posts) :
          posts[i].method = "POST" /\ posts[i].url = "/your-api-endpoint"

C3_Witness ==
    /\ submitCalls = 2
    /\ posts[1].status = "error"
    /\ posts[2].status = "error"

\* C4: when the transport fails a request, nothing is raised (no error reaches
\* the host), the sink holds exactly one failure notification and no success
\* notification for that submission, and the failure step leaves the component's
\* fields (name, selectedFiles) as they were.
C4_FailureIsLoggedOnce ==
    /\ [](/\ unhandled = <<>>
          /\ \A i \in 1..Len(posts) :
                posts[i].status = "error" =>
                    /\ Notifications(i, "error") = 1
                    /\ Notifications(i, "log") = 0)
    /\ [][ \A i \in 1..Len(posts) :
             (posts[i].status = "pending" /\ posts'[i].status = "error")
                => UNCHANGED <<name, selectedFiles>> ]_vars

C4_Witness ==
    /\ Len(posts) = 2
    /\ posts[1].status = "success"
    /\ posts[2].status = "error"
    /\ Notifications(2, "error") = 1
    /\ Len(selectedFiles) = 2

\* C5 as stated: the GETs on the wire are as many as the loadConfig() calls,
\* however often the returned handle is subscribed.
C5_OneGetPerInvocation ==
    /\ Len(gets) = loadCalls
    /\ \A g \in 1..Len(gets) :
          /\ gets[g].method = "GET" /\ gets[g].url = "/api/config"
          /\ gets[g].query = "" /\ gets[g].body = NoBody

\* C5 amended: loadConfig() itself sends nothing; every subscription to a handle
\* it returned sends exactly one GET to /api/config, with no query string and no
\* body, so the GETs on the wire are as many as the subscriptions.
C5_OneGetPerSubscription ==
    /\ Len(gets) = Len(subs)
    /\ \A s \in 1..Len(subs) :
          /\ subs[s].handle \in 1..loadCalls
          /\ subs[s].get \in 1..Len(gets)
          /\ \A t \in 1..Len(subs) : subs[t].get = subs[s].get => t = s
    /\ \A g \in 1..Len(gets) :
          /\ gets[g].method = "GET" /\ gets[g].url = "/api/config"
          /\ gets[g].query = "" /\ gets[g].body = NoBody

\* One invocation, two subscriptions to its handle, two GETs.
C5_Witness ==
    /\ loadCalls = 1
    /\ Len(subs) = 2
    /\ Len(gets) = 2

\* C6: what a subscriber observes is the transport's outcome for its own
\* request, response or failure, unchanged; nothing is observed before the
\* transport answers, and no subscription is served from another one's request.
C6_OutcomePassedThrough ==
    \A s \in 1..Len(subs) :
        /\ subs[s].state = "done" =>
              /\ subs[s].delivered = gets[subs[s].get].response
              /\ subs[s].delivered \in ConfigResponses \cup {Failure}
        /\ subs[s].state # "done" => subs[s].delivered = "none"
        /\ \A t \in 1..Len(subs) : subs[t].get = subs[s].get => t = s

\* Two invocations, one answered with a response and one with a failure.
C6_Witness ==
    /\ Len(subs) = 2
    /\ subs[1].handle # subs[2].handle
    /\ subs[1].delivered = "cfgA"
    /\ subs[2].delivered = Failure

\* C7: the name part is never left out: every body on the wire starts with the
\* one part of key "name", whose value is the form's name value at the time of
\* the call, the empty string included.
C7_NamePartAlwaysSent ==
    /\ [](\A i \in 1..Len(posts) :
            /\ Len(posts[i].body) >= 1
            /\ posts[i].body[1].key = "name"
            /\ posts[i].body[1].filename = NoFilename
            /\ \A k \in 2..Len(posts[i].body) : posts[i].body[k].key # "name")
    /\ [][ submitCalls' # submitCalls => NewPost.body[1].value = name ]_vars

\* An empty name with a file selected: the name part is there, with value "".
C7_Witness ==
    \E i \in 1..Len(posts) :
        /\ posts[i].body[1].key = "name"
        /\ posts[i].body[1].value = ""
        /\ Len(posts[i].body) = 2

\* C8: onSubmit and the delivery of an outcome (success or failure) leave name
\* and selectedFiles unchanged, so the payload just sent is the payload an
\* immediate second submit sends.
C8_SubmitLeavesStateAlone ==
    [][ /\ (submitCalls' # submitCalls \/ console' # console \/ posts' # posts)
            => UNCHANGED <<name, selectedFiles>>
        /\ (submitCalls' # submitCalls /\ Len(posts) >= 1
              /\ BuildFormData(name, selectedFiles) = posts[Len(posts)].body)
            => NewPost.body = posts[Len(posts)].body ]_vars

\* Submitted twice over the same input, after a success: the same payload again.
C8_Witness ==
    /\ Len(posts) = 2
    /\ posts[1].status = "success"
    /\ posts[2].status = "error"
    /\ posts[1].body = posts[2].body
    /\ Len(posts[1].body) = 3
    /\ selectedFiles = <<aTxt, bPng>>

\* C9 as stated: no request, of onSubmit or of a subscription to a loadConfig()
\* handle, is ever aborted once it is under way.
C9_NoRequestIsAborted ==
    [][ /\ \A i \in 1..Len(posts) :
              posts[i].status = "pending"
                  => posts'[i].status \in {"pending", "success", "error"}
        /\ \A s \in 1..Len(subs) :
              subs[s].state = "pending"
                  => subs'[s].state \in {"pending", "done"} ]_vars

\* C9 amended: onSubmit returns with its request pending and no notification;
\* a request of onSubmit can only go from pending to success or error and then
\* stays there; it has one notification exactly when it is no longer pending,
\* never two; and, the transport answering, every request of onSubmit gets its
\* notification.  (A request of a loadConfig() subscription can be aborted.)
C9_SubmitRunsToOneOutcome ==
    /\ [][ submitCalls' # submitCalls =>
             /\ NewPost.status = "pending"
             /\ console' = console ]_vars
    /\ [][ \A i \in 1..Len(posts) :
             /\ posts'[i].status \in {"pending", "success", "error"}
             /\ posts[i].status # "pending" => posts'[i].status = posts[i].status ]_vars
    /\ [](\A i \in 1..Len(posts) :
             /\ Notifications(i, "log") + Notifications(i, "error")
                   = (IF posts[i].status = "pending" THEN 0 ELSE 1)
             /\ posts[i].status = "success" => Notifications(i, "log") = 1
             /\ posts[i].status = "error" => Notifications(i, "error") = 1)
    /\ \A i \in 1..MaxSubmits :
          (Len(posts) >= i)
             ~> (Notifications(i, "log") + Notifications(i, "error") = 1)

\* Two overlapping submissions answered in the reverse order, one each way.
C9_Witness ==
    /\ Len(console) = 2
    /\ console[1].req = 2 /\ console[1].level = "error"
    /\ console[2].req = 1 /\ console[2].level = "log"

\* C10: the payload is fixed when onSubmit is called: a new request carries the
\* name and the files current at the call, no later step (selection, name edit,
\* further submit, outcome of any request) changes the body, method or url of a
\* request already sent, and an outcome changes neither name nor selection.
C10_PayloadFixedAtSubmit ==
    [][ /\ Len(posts') >= Len(posts)
        /\ \A i \in 1..Len(posts) :
              /\ posts'[i].body = posts[i].body
              /\ posts'[i].method = posts[i].method
              /\ posts'[i].url = posts[i].url
        /\ submitCalls' # submitCalls =>
              /\ NewPost.body[1].value = name
              /\ FileNamesOf(NewPost.body)
                    = [k \in 1..Len(selectedFiles) |-> selectedFiles[k].name]
        /\ console' # console => UNCHANGED <<name, selectedFiles>> ]_vars

\* Two requests with different payloads, the later one answered first, while
\* the form already holds a third input.
C10_Witness ==
    /\ Len(posts) = 2
    /\ posts[1].status = "pending"
    /\ posts[2].status = "success"
    /\ posts[1].body = BuildFormData("Alice", <<aTxt>>)
    /\ posts[2].body = BuildFormData("", <<bPng, aTxt>>)
    /\ name = "Alice"
    /\ selectedFiles = <<>>

====
